---- MODULE Spec2Model ----
(***************************************************************************)
(* Kenyan-ID KYC verification service: the three request handlers that     *)
(* compute a verification verdict (FastAPI endpoint, ValidationService,    *)
(* Flask validate_kyc), the /validate-id phone normaliser and the face     *)
(* comparison helper.                                                      *)
(*                                                                         *)
(* Text is a sequence of one-character strings, so that Python's str and   *)
(* re operations are computed character by character.  An optional value   *)
(* (Python None) is the empty tuple None, a present value x is Some(x).    *)
(* A face distance d is held in units of 1e-5 (0.6 is 60000); a confidence *)
(* is held in units of 1e-3 percent (100.0 percent is 100000).             *)
(***************************************************************************)
EXTENDS Integers, Sequences, FiniteSets, TLC

VARIABLES pc, op, req, resp

vars == <<pc, op, req, resp>>

None == <<>>

Some(x) == <<x>>

Min(S) == CHOOSE x \in S : \A y \in S : x <= y

Max(S) == CHOOSE x \in S : \A y \in S : x >= y

Abs(x) == IF x < 0 THEN -x ELSE x

-----------------------------------------------------------------------------
(* Characters and Python str operations *)

UC == <<"A", "B", "C", "D", "E", "F", "G", "H", "I", "J", "K", "L", "M",
        "N", "O", "P", "Q", "R", "S", "T", "U", "V", "W", "X", "Y", "Z">>

LC == <<"a", "b", "c", "d", "e", "f", "g", "h", "i", "j", "k", "l", "m",
        "n", "o", "p", "q", "r", "s", "t", "u", "v", "w", "x", "y", "z">>

Letters == 1..26

UpperChars == {UC[i] : i \in Letters}

LowerChars == {LC[i] : i \in Letters}

DigitChars == {"0", "1", "2", "3", "4", "5", "6", "7", "8", "9"}

SpaceChars == {" ", "\n", "\t"}

\* \w of Python's re
WordChars == UpperChars \cup LowerChars \cup DigitChars \cup {"_"}

LowerChar(c) == IF c \in UpperChars THEN LC[CHOOSE i \in Letters : UC[i] = c] ELSE c

UpperChar(c) == IF c \in LowerChars THEN UC[CHOOSE i \in Letters : LC[i] = c] ELSE c

\* str.lower()
Lower(s) == [i \in 1..Len(s) |-> LowerChar(s[i])]

\* str.upper()
Upper(s) == [i \in 1..Len(s) |-> UpperChar(s[i])]

\* str.title(): a letter that follows a non-letter is upper-cased, any other lower-cased
Title(s) ==
  [i \in 1..Len(s) |->
     IF i = 1 \/ s[i - 1] \notin (UpperChars \cup LowerChars)
     THEN UpperChar(s[i]) ELSE LowerChar(s[i])]

\* str.capitalize(): first character upper-cased, the rest lower-cased
Capitalize(s) == [i \in 1..Len(s) |-> IF i = 1 THEN UpperChar(s[i]) ELSE LowerChar(s[i])]

\* str.strip()
Strip(s) ==
  LET keep == {i \in 1..Len(s) : s[i] \notin SpaceChars}
  IN  IF keep = {} THEN <<>> ELSE SubSeq(s, Min(keep), Max(keep))

\* sub in s
Contains(sub, s) ==
  \E i \in 0..(Len(s) - Len(sub)) : SubSeq(s, i + 1, i + Len(sub)) = sub

\* s[p:].startswith(lit), p a 1-based index
StartsAt(lit, s, p) ==
  /\ p + Len(lit) - 1 <= Len(s)
  /\ SubSeq(s, p, p + Len(lit) - 1) = lit

\* s.startswith(lit)
StartsWith(lit, s) == StartsAt(lit, s, 1)

\* str.isdigit() for the ASCII inputs of the model: non-empty, digits only
IsDigits(s) == Len(s) > 0 /\ \A i \in 1..Len(s) : s[i] \in DigitChars

\* number of consecutive characters of s, from index a on, that are in class
RunLen(s, a, class) ==
  LET stops == {i \in a..Len(s) : s[i] \notin class}
  IN  IF a > Len(s) THEN 0
      ELSE IF stops = {} THEN Len(s) - a + 1 ELSE Min(stops) - a

\* sep.join(frags)
RECURSIVE Join(_, _)
Join(frags, sep) ==
  IF Len(frags) = 0 THEN <<>>
  ELSE IF Len(frags) = 1 THEN frags[1]
  ELSE frags[1] \o sep \o Join(Tail(frags), sep)

\* str.split('\n')
RECURSIVE SplitLines(_)
SplitLines(s) ==
  LET nl == {i \in 1..Len(s) : s[i] = "\n"}
  IN  IF nl = {} THEN <<s>>
      ELSE <<SubSeq(s, 1, Min(nl) - 1)>> \o SplitLines(SubSeq(s, Min(nl) + 1, Len(s)))

\* str.split(): the maximal runs of non-whitespace characters
RECURSIVE Words(_)
Words(s) ==
  LET split(t) ==
        LET sp == {i \in 1..Len(t) : t[i] \in SpaceChars}
        IN  IF t = <<>> THEN <<>>
            ELSE IF sp = {} THEN <<t>>
            ELSE <<SubSeq(t, 1, Min(sp) - 1)>> \o Words(SubSeq(t, Min(sp), Len(t)))
  IN  split(Strip(s))

\* regex \b at the gap before index p of s
WordBoundary(s, p) ==
  LET before == p > 1 /\ p - 1 <= Len(s) /\ s[p - 1] \in WordChars
      after  == p >= 1 /\ p <= Len(s) /\ s[p] \in WordChars
  IN  before # after

\* regex $ (no MULTILINE) at the gap before index p: the end, or before a final newline
AtDollar(s, p) == p = Len(s) + 1 \/ (p = Len(s) /\ s[p] = "\n")

-----------------------------------------------------------------------------
(* Literals of the source and of the requests *)

\* "+254"
S_Plus254 == <<"+", "2", "5", "4">>

\* "+"
S_Plus == <<"+">>

\* "254", Kenya's country calling code
S_KE == <<"2", "5", "4">>

\* "0"
S_Zero == <<"0">>

\* " "
S_Sp == <<" ">>

\* "\n"
S_Nl == <<"\n">>

\* "..."
S_Ellipsis == <<".", ".", ".">>

\* "NAME"
S_NAME == <<"N", "A", "M", "E">>

\* "FULL NAME"
S_FULLNAME == <<"F", "U", "L", "L", " ", "N", "A", "M", "E">>

\* "FULL NAMES"
S_FULLNAMES == <<"F", "U", "L", "L", " ", "N", "A", "M", "E", "S">>

\* "DATE"
S_DATE == <<"D", "A", "T", "E">>

\* "ID"
S_ID == <<"I", "D">>

\* "sex"
S_SEX == <<"s", "e", "x">>

\* "gender"
S_GENDER == <<"g", "e", "n", "d", "e", "r">>

\* "John Kamau"
S_JohnKamau == <<"J", "o", "h", "n", " ", "K", "a", "m", "a", "u">>

\* "Jane Doe"
S_JaneDoe == <<"J", "a", "n", "e", " ", "D", "o", "e">>

\* "12345678"
S_Id8 == <<"1", "2", "3", "4", "5", "6", "7", "8">>

\* "87654321"
S_OtherId == <<"8", "7", "6", "5", "4", "3", "2", "1">>

\* "+254712345678"
S_PhoneE164 == <<"+", "2", "5", "4", "7", "1", "2", "3", "4", "5", "6", "7", "8">>

\* "0712345678"
S_PhoneLocal == <<"0", "7", "1", "2", "3", "4", "5", "6", "7", "8">>

\* "+2547123": parses as a Kenyan number, too short to be a valid one
S_PhoneShort == <<"+", "2", "5", "4", "7", "1", "2", "3">>

\* "NATIONAL IDENTITY CARD SURNAME KAMAU GIVEN NAME JOHN SEX MALE 12345678"
S_Scenario ==
  <<"N", "A", "T", "I", "O", "N", "A", "L", " ", "I", "D", "E", "N", "T", "I", "T", "Y", " ",
    "C", "A", "R", "D", " ", "S", "U", "R", "N", "A", "M", "E", " ", "K", "A", "M", "A", "U", " ",
    "G", "I", "V", "E", "N", " ", "N", "A", "M", "E", " ", "J", "O", "H", "N", " ",
    "S", "E", "X", " ", "M", "A", "L", "E", " ", "1", "2", "3", "4", "5", "6", "7", "8">>

\* "FULL NAME JOHN KAMAU ID NUMBER 12345678"
S_Labelled ==
  <<"F", "U", "L", "L", " ", "N", "A", "M", "E", " ", "J", "O", "H", "N", " ",
    "K", "A", "M", "A", "U", " ", "I", "D", " ", "N", "U", "M", "B", "E", "R", " ",
    "1", "2", "3", "4", "5", "6", "7", "8">>

\* "REPUBLIC OF KENYA"
S_Republic ==
  <<"R", "E", "P", "U", "B", "L", "I", "C", " ", "O", "F", " ", "K", "E", "N", "Y", "A">>

\* "SEX MALE"
S_SexMale == <<"S", "E", "X", " ", "M", "A", "L", "E">>

\* "01/02/1990"
S_Dob == <<"0", "1", "/", "0", "2", "/", "1", "9", "9", "0">>

\* "John Kamau 123456789"
S_NameLong ==
  <<"J", "o", "h", "n", " ", "K", "a", "m", "a", "u", " ",
    "1", "2", "3", "4", "5", "6", "7", "8", "9">>

\* the digit string "1234567890123..." of length n
DigitRun(n) == [i \in 1..n |-> <<"1", "2", "3", "4", "5", "6", "7", "8", "9", "0">>[((i - 1) % 10) + 1]]

-----------------------------------------------------------------------------
(* Bounds and inputs *)

\* longest all-digit id_number submitted
MaxIdLen == 9

\* most faces the face engine finds in one image
MaxFaces == 2

\* submitted names
Names == {S_JohnKamau, S_JaneDoe}

\* submitted ID numbers: digit strings of 7..MaxIdLen digits
IdNumbers == {DigitRun(n) : n \in 7..MaxIdLen}

\* submitted phone numbers
Phones == {S_PhoneE164, S_PhoneLocal, S_PhoneShort}

\* An uploaded image, as the external engines see it:
\*   stream    the upload can be read
\*   readable  the bytes decode as an image
\*   haar      faces found by OpenCV's Haar cascade
\*   encs      face_recognition's encodings, one per face it finds, first face first;
\*             an encoding is a point on a line, in units of 1e-5
\*   frags     the text fragments the OCR reader returns, in reading order
Image(haar, encs, frags) ==
  [present |-> TRUE, stream |-> TRUE, readable |-> TRUE,
   haar |-> haar, encs |-> encs, frags |-> frags]

\* an upload whose read() raises
BrokenUpload ==
  [present |-> TRUE, stream |-> FALSE, readable |-> FALSE,
   haar |-> 0, encs |-> <<>>, frags |-> <<>>]

\* bytes that are no image
CorruptImage ==
  [present |-> TRUE, stream |-> TRUE, readable |-> FALSE,
   haar |-> 0, encs |-> <<>>, frags |-> <<>>]

\* a file field the request does not carry
NoFile ==
  [present |-> FALSE, stream |-> FALSE, readable |-> FALSE,
   haar |-> 0, encs |-> <<>>, frags |-> <<>>]

\* n faces, the first with encoding e
FaceList(e, n) == [i \in 1..n |-> IF i = 1 THEN e ELSE 0]

Selfies ==
  {BrokenUpload, CorruptImage,
   Image(0, <<>>, <<>>), Image(1, <<>>, <<>>), Image(1, <<0>>, <<>>)}

\* what the OCR reader returns for the ID cards of the model
CardTexts ==
  {<<>>,
   <<S_Scenario>>,
   <<S_Labelled>>,
   <<S_JohnKamau, S_Id8, S_SexMale, S_Dob>>,
   <<S_Republic, S_JohnKamau, S_OtherId>>,
   <<S_JohnKamau>>,
   <<S_NameLong>>,
   \* "DISTRICT 5", then "John Kamau"
   <<<<"D", "I", "S", "T", "R", "I", "C", "T", " ", "5">>, S_JohnKamau>>}

\* the faces of the ID photos of the model: one face at distance 0.6 or 1.2 of the
\* selfie's, or several faces, the first at distance 0.8
CardFaces == {<<60000>>, <<120000>>} \cup {FaceList(80000, n) : n \in 2..MaxFaces}

\* ID fronts: every card text without a face and with one face at distance 0.3 of
\* the selfie's, and the labelled card with each of the other faces
IdFronts ==
  {BrokenUpload, CorruptImage}
    \cup {Image(Len(f), f, t) : f \in {<<>>, <<30000>>}, t \in CardTexts}
    \cup {Image(Len(f), f, <<S_Labelled>>) : f \in CardFaces}

IdBacks == {BrokenUpload, Image(0, <<>>, <<>>), Image(0, <<>>, <<S_OtherId, S_JaneDoe>>)}

-----------------------------------------------------------------------------
(* phonenumbers, for numbers written as an optional "+" and digits with country
   code 254: parse(number, None) raises unless the number starts with "+", has a
   known country code and a national number of 2 to 17 digits; is_valid_number holds
   for the 9-digit national numbers of the Kenyan 7XX mobile range. *)

PhoneCountryCode(p) == SubSeq(p, 2, 4)

PhoneNational(p) == SubSeq(p, 5, Len(p))

\* phonenumbers.parse(p, None) returns
PhoneParses(p) ==
  /\ StartsWith(S_Plus, p)
  /\ IsDigits(SubSeq(p, 2, Len(p)))
  /\ Len(p) >= 4
  /\ PhoneCountryCode(p) = S_KE
  /\ Len(PhoneNational(p)) \in 2..17

\* phonenumbers.is_valid_number(parse(p, None))
PhoneIsValid(p) ==
  /\ PhoneParses(p)
  /\ Len(PhoneNational(p)) = 9
  /\ PhoneNational(p)[1] = "7"

\* phonenumbers.format_number(parse(p, None), E164)
PhoneE164(p) == S_Plus \o PhoneCountryCode(p) \o PhoneNational(p)

-----------------------------------------------------------------------------
(* app/api/endpoints/validation.py: POST /api/validate/kenyan-id *)

\* HaarDetectFaces with len(faces) >= 0 for len(faces) > 0: a fault that C5's
\* formula detects
HaarDetectFacesAny(img) ==
  IF img.readable THEN <<img.haar >= 0, img.haar>> ELSE <<FALSE, 0>>

\* detect_faces(image_bytes): (has_face, face_count); (False, 0) on any exception
HaarDetectFaces(img) ==
  IF img.readable THEN <<img.haar > 0, img.haar>> ELSE <<FALSE, 0>>

\* extract_text_from_image(image_bytes): fragments joined by " "; "" on any exception
ExtractTextFromImage(img) ==
  IF img.readable THEN Join(img.frags, S_Sp) ELSE <<>>

\* bool(re.match(r'^\d{7,8}$', id_number))
EndpointIdValid(id_number) ==
  \E n \in {7, 8} :
    /\ Len(id_number) >= n
    /\ IsDigits(SubSeq(id_number, 1, n))
    /\ AtDollar(id_number, n + 1)

\* the phone_validation dict of the endpoint
EndpointPhoneValidation(phone_number) ==
  IF PhoneParses(phone_number)
  THEN [is_valid |-> PhoneIsValid(phone_number),
        message |-> "Valid phone number",
        normalized_number |-> Some(PhoneE164(phone_number))]
  ELSE [is_valid |-> FALSE,
        message |-> "Invalid phone number",
        normalized_number |-> None]

\* EndpointIsVerified with the name check left out of the verdict: a fault that
\* C1's formula detects
EndpointIsVerifiedNoName(is_valid_id, phone_valid, name_in_id, id_number_in_id, face_match) ==
  is_valid_id /\ phone_valid /\ id_number_in_id /\ face_match

\* is_verified of the endpoint
EndpointIsVerified(is_valid_id, phone_valid, name_in_id, id_number_in_id, face_match) ==
  is_valid_id /\ phone_valid /\ name_in_id /\ id_number_in_id /\ face_match

\* id_text[:500] + (id_text[500:] and '...')
LimitText(id_text) ==
  IF Len(id_text) > 500 THEN SubSeq(id_text, 1, 500) \o S_Ellipsis ELSE id_text

\* the response of validate_kenyan_id
EndpointResponse(name, id_number, phone_number, selfie, id_front) ==
  IF ~selfie.stream \/ ~id_front.stream
  THEN [http |-> 500, status |-> "error"]
  ELSE
    LET is_valid_id      == EndpointIdValid(id_number)
        phone_validation == EndpointPhoneValidation(phone_number)
        selfie_faces     == HaarDetectFaces(selfie)
        id_faces         == HaarDetectFaces(id_front)
        id_text          == ExtractTextFromImage(id_front)
        name_in_id       == Contains(Lower(name), Lower(id_text))
        id_number_in_id  == Contains(id_number, id_text)
        face_match       == selfie_faces[1] /\ id_faces[1]
    IN  [http |-> 200,
         status |-> "success",
         is_verified |-> EndpointIsVerified(is_valid_id, phone_validation.is_valid,
                                            name_in_id, id_number_in_id, face_match),
         data |-> [name |-> Strip(name), id_number |-> id_number,
                   phone_number |-> phone_number],
         id_validation |-> [is_valid |-> is_valid_id],
         ocr_extraction |-> [extracted_text |-> LimitText(id_text),
                             name_found |-> name_in_id,
                             id_number_found |-> id_number_in_id],
         face_detection |-> [selfie_has_face |-> selfie_faces[1],
                             id_photo_has_face |-> id_faces[1],
                             face_count_selfie |-> selfie_faces[2],
                             face_count_id |-> id_faces[2],
                             faces_match |-> face_match],
         phone_validation |-> phone_validation]

EndpointValidateKenyanId ==
  /\ pc = "idle"
  /\ \E name \in Names, id_number \in IdNumbers, phone_number \in Phones,
        selfie \in Selfies, id_front \in IdFronts :
       /\ req' = [name |-> name, id_number |-> id_number, phone_number |-> phone_number,
                  selfie |-> selfie, id_front |-> id_front]
       /\ resp' = EndpointResponse(name, id_number, phone_number, selfie, id_front)
  /\ op' = "endpoint"
  /\ pc' = "done"

-----------------------------------------------------------------------------
(* kyc-validator/src/routes/kyc.py: POST /api/validate-kyc *)

\* face_recognition.face_distance of two encodings
FaceDistance(a, b) == Abs(a - b)

\* tolerance of face_recognition.compare_faces, which validate_kyc leaves at its default
FaceRecognitionTolerance == 60000

\* round(x, 2) of a confidence in units of 1e-3 percent: to the nearest hundredth
\* of a percent, a tie to the even one
Round2(x) ==
  LET r == x % 10
      base == x - r
  IN  IF r < 5 THEN base
      ELSE IF r > 5 THEN base + 10
      ELSE IF (base \div 10) % 2 = 0 THEN base ELSE base + 10

\* re.search(r'\b\d{7,8}\b', text): group(0) of the leftmost match, or None
KycIdSearch(text) ==
  LET ok(i, n) == /\ i + n - 1 <= Len(text)
                  /\ IsDigits(SubSeq(text, i, i + n - 1))
                  /\ WordBoundary(text, i)
                  /\ WordBoundary(text, i + n)
      group(i, n) == Some(SubSeq(text, i, i + n - 1))
      longest(i) == group(i, Max({m \in {7, 8} : ok(i, m)}))
      leftmost(starts) == IF starts = {} THEN None ELSE longest(Min(starts))
  IN  leftmost({i \in 1..Len(text) : \E n \in {7, 8} : ok(i, n)})

\* the lookahead (?=DATE|$|ID) at the gap before index b
KycNameLookahead(text, b) ==
  StartsAt(S_DATE, text, b) \/ AtDollar(text, b) \/ StartsAt(S_ID, text, b)

\* the end (exclusive) of the greedy group ([A-Z\s]+) that starts at index a: the
\* last position in its run where the lookahead holds; 0 when there is none
KycNameGroupEnd(text, a) ==
  LET last(ends) == IF ends = {} THEN 0 ELSE Max(ends)
      within(r) == last({b \in (a + 1)..(a + r) : KycNameLookahead(text, b)})
  IN  within(RunLen(text, a, UpperChars \cup SpaceChars))

\* the group found after a label that ends before index e: [\s:]* takes the most
\* characters that leave a group; None when no split does
KycNameAfterLabel(text, e) ==
  LET group(a, b) == Some(SubSeq(text, a, b - 1))
      longest(ends, ks) == IF ks = {} THEN None ELSE group(e + Max(ks), ends[Max(ks)])
      split(ends) == longest(ends, {k \in DOMAIN ends : ends[k] # 0})
  IN  split([k \in 0..RunLen(text, e, SpaceChars \cup {":"}) |->
               KycNameGroupEnd(text, e + k)])

\* the first attempt, in the order the regex engine makes them, that matched; None
\* when none did
FirstMatch(attempts) ==
  LET hits == {k \in DOMAIN attempts : attempts[k] # None}
  IN  IF hits = {} THEN None ELSE attempts[Min(hits)]

\* the match tried at index p: NAME, else FULL NAMES, else FULL NAME
KycNameAt(text, p) ==
  LET labels == IF StartsAt(S_NAME, text, p) THEN <<p + 4>>
                ELSE IF StartsAt(S_FULLNAMES, text, p) THEN <<p + 10, p + 9>>
                ELSE IF StartsAt(S_FULLNAME, text, p) THEN <<p + 9>>
                ELSE <<>>
      tried(ends) == [k \in 1..Len(ends) |-> KycNameAfterLabel(text, ends[k])]
  IN  FirstMatch(tried(labels))

\* re.search(r'(?:NAME|FULL NAMES?)[\s:]*([A-Z\s]+)(?=DATE|$|ID)', text):
\* group(1) of the leftmost match, or None
KycNameSearch(text) ==
  FirstMatch([p \in 1..Len(text) |-> KycNameAt(text, p)])

\* bool(extracted_id_match and id_number in extracted_id_match.group(0))
KycIdPatternMatched(id_match, id_number) ==
  id_match # None /\ Contains(id_number, id_match[1])

\* the face step of validate_kyc: (face_match_result, confidence, message)
KycFaceStep(selfie, id_front) ==
  IF ~selfie.readable \/ ~id_front.readable
  THEN [is_match |-> FALSE, confidence |-> 0, message |-> "Error during face recognition"]
  ELSE IF selfie.encs = <<>> \/ id_front.encs = <<>>
  THEN [is_match |-> FALSE, confidence |-> 0,
        message |-> "No faces detected in one or both images"]
  ELSE
    LET face_distance == FaceDistance(id_front.encs[1], selfie.encs[1])
        match == face_distance <= FaceRecognitionTolerance
    IN  [is_match |-> match,
         confidence |-> Round2(100000 - face_distance),
         message |-> IF match THEN "Faces match" ELSE "Faces do not match"]

\* is_verified of validate_kyc
KycIsVerified(id_pattern_matched, face_match_result, is_valid_phone) ==
  id_pattern_matched /\ face_match_result /\ is_valid_phone

\* the response of validate_kyc
KycResponse(name, id_number, phone_number, selfie, id_front, id_back) ==
  IF name = <<>> \/ id_number = <<>> \/ phone_number = <<>>
       \/ ~selfie.present \/ ~id_front.present \/ ~id_back.present
  THEN [http |-> 400, status |-> "error", message |-> "Missing required fields"]
  ELSE IF ~selfie.stream \/ ~id_front.stream \/ ~id_back.stream
  THEN [http |-> 500, status |-> "error", message |-> "An error occurred during validation"]
  ELSE IF ~id_front.readable \/ ~id_back.readable
  THEN [http |-> 400, status |-> "error", message |-> "Error processing ID images"]
  ELSE
    LET is_valid_phone   == PhoneParses(phone_number) /\ PhoneIsValid(phone_number)
        normalized_phone == IF PhoneParses(phone_number)
                            THEN Some(PhoneE164(phone_number)) ELSE None
        named(name_match) == IF name_match # None
                             THEN Title(Strip(name_match[1])) ELSE name
        respond(id_match, full_name, face) ==
          LET extracted_data     == [id_number |-> id_match, full_name |-> full_name]
              id_pattern_matched == KycIdPatternMatched(id_match, id_number)
          IN  [http |-> 200,
               status |-> "success",
               is_verified |-> KycIsVerified(id_pattern_matched, face.is_match,
                                             is_valid_phone),
               data |-> [name |-> name, id_number |-> id_number,
                         phone_number |-> IF normalized_phone # None
                                          THEN normalized_phone[1] ELSE phone_number],
               id_validation |-> [id_number_valid |-> id_pattern_matched,
                                  id_pattern_matched |-> id_pattern_matched,
                                  extracted_data |-> extracted_data],
               face_match |-> face,
               phone_validation |-> [is_valid |-> is_valid_phone,
                                     message |-> IF is_valid_phone
                                                 THEN "Valid phone number"
                                                 ELSE "Invalid phone number",
                                     normalized_number |-> normalized_phone],
               name_match |-> Contains(Lower(full_name), Lower(name)),
               ocr_extracted_data |-> extracted_data]
        read(combined_text) ==
          respond(KycIdSearch(combined_text), named(KycNameSearch(combined_text)),
                  KycFaceStep(selfie, id_front))
    IN  read(Upper(Join(id_front.frags, S_Sp) \o S_Sp \o Join(id_back.frags, S_Sp)))

ValidateKyc ==
  /\ pc = "idle"
  /\ \E name \in Names \cup {<<>>}, id_number \in IdNumbers, phone_number \in Phones,
        selfie \in Selfies \cup {NoFile}, id_front \in IdFronts, id_back \in IdBacks :
       /\ req' = [name |-> name, id_number |-> id_number, phone_number |-> phone_number,
                  selfie |-> selfie, id_front |-> id_front, id_back |-> id_back]
       /\ resp' = KycResponse(name, id_number, phone_number, selfie, id_front, id_back)
  /\ op' = "kyc"
  /\ pc' = "done"

-----------------------------------------------------------------------------
(* app/utils/image_utils.py *)

\* default of compare_faces' tolerance parameter: 0.6
Tolerance == 60000

\* detect_faces(image): whether face_recognition finds a face
DetectFaces(img) == Len(img.encs) > 0

\* IsMatch with the boundary excluded: a fault that C7's formula detects
IsMatchStrict(face_distance, tolerance) == face_distance < tolerance

\* is_match = face_distance <= tolerance
IsMatch(face_distance, tolerance) == face_distance <= tolerance

\* confidence = (1 - face_distance) * 100
Confidence(face_distance) == 100000 - face_distance

\* CompareFaces with an image without a face compared as the zero encoding: a
\* fault that C6's formula detects
CompareFacesZeroDefault(known_image, unknown_image, tolerance) ==
  LET known   == IF known_image.encs = <<>> THEN 0 ELSE known_image.encs[1]
      unknown == IF unknown_image.encs = <<>> THEN 0 ELSE unknown_image.encs[1]
      face_distance == FaceDistance(known, unknown)
  IN  [is_match |-> IsMatch(face_distance, tolerance),
       confidence |-> Confidence(face_distance),
       message |-> "Face match"]

\* compare_faces(known_image, unknown_image, tolerance) of two loaded images
CompareFaces(known_image, unknown_image, tolerance) ==
  IF known_image.encs = <<>> \/ unknown_image.encs = <<>>
  THEN [is_match |-> FALSE, confidence |-> 0,
        message |-> "No faces found in one or both images"]
  ELSE
    LET face_distance == FaceDistance(known_image.encs[1], unknown_image.encs[1])
    IN  [is_match |-> IsMatch(face_distance, tolerance),
         confidence |-> Confidence(face_distance),
         message |-> "Face match"]

\* The temporary files a call of save_uploaded_file leaves on disk, and whether it
\* returns: the file is created before the upload is read, and is not removed when
\* the read raises.
SaveUploadedFile(upload, suffix) ==
  [created |-> {suffix}, returned |-> upload.stream]

-----------------------------------------------------------------------------
(* app/utils/ocr_utils.py: OCRService *)

\* kenyan_id_pattern.fullmatch(s), the pattern being ^\d{8,9}$
KenyanIdFullmatch(s) == IsDigits(s) /\ Len(s) \in {8, 9}

\* validate_kenyan_id_number(id_number)
ValidateKenyanIdNumber(id_number) ==
  IF id_number = <<>> THEN FALSE ELSE KenyanIdFullmatch(id_number)

\* extract_text(image_path): (success, text)
OcrExtractText(img) ==
  IF img.readable THEN <<TRUE, Strip(Join(img.frags, S_Nl))>> ELSE <<FALSE, <<>>>>

\* re.search(r'\b(\d{1,2}[-/]\d{1,2}[-/]\d{2,4})\b', line): group(1), or None
DateSearch(line) ==
  LET sep(i) == i <= Len(line) /\ line[i] \in {"-", "/"}
      dig(i, n) == i + n - 1 <= Len(line) /\ IsDigits(SubSeq(line, i, i + n - 1))
      ok(i, n1, n2, n3) ==
        /\ WordBoundary(line, i)
        /\ dig(i, n1) /\ sep(i + n1)
        /\ dig(i + n1 + 1, n2) /\ sep(i + n1 + 1 + n2)
        /\ dig(i + n1 + n2 + 2, n3)
        /\ WordBoundary(line, i + n1 + n2 + 2 + n3)
      at(i) == {n \in {1, 2} \X {1, 2} \X {2, 3, 4} : ok(i, n[1], n[2], n[3])}
      \* the greedy quantifiers take the longest first, second, then third group
      before(m, n) == \/ m[1] > n[1]
                      \/ m[1] = n[1] /\ m[2] > n[2]
                      \/ m[1] = n[1] /\ m[2] = n[2] /\ m[3] >= n[3]
      greedy(ns) == CHOOSE m \in ns : \A n \in ns : before(m, n)
      group(i, n) == Some(SubSeq(line, i, i + n[1] + n[2] + n[3] + 1))
      leftmost(starts) ==
        IF starts = {} THEN None ELSE group(Min(starts), greedy(at(Min(starts))))
  IN  leftmost({i \in 1..Len(line) :
                  line[i] \in DigitChars /\ WordBoundary(line, i) /\ at(i) # {}})

\* re.search(r'\b(?:SEX|GENDER)[:\s]*(\w+)\b', line, re.IGNORECASE): group(1), or None
GenderSearch(line) ==
  LET labelEnd(low, p) == IF StartsAt(S_SEX, low, p) THEN p + 3
                          ELSE IF StartsAt(S_GENDER, low, p) THEN p + 6 ELSE 0
      groupStart(e) == e + RunLen(line, e, SpaceChars \cup {":"})
      group(a) == Some(SubSeq(line, a, a + RunLen(line, a, WordChars) - 1))
      ok(e) == e # 0 /\ RunLen(line, groupStart(e), WordChars) > 0
      leftmost(low, starts) ==
        IF starts = {} THEN None ELSE group(groupStart(labelEnd(low, Min(starts))))
      search(low) ==
        leftmost(low, {p \in 1..Len(line) : WordBoundary(line, p) /\ ok(labelEnd(low, p))})
  IN  search(Lower(line))

\* len(line.split()) >= 2 and all(word[0].isupper() for word in line.split() if len(word) > 1)
LooksLikeName(line) ==
  LET capitalised(words) ==
        /\ Len(words) >= 2
        /\ \A i \in 1..Len(words) : Len(words[i]) > 1 => words[i][1] \in UpperChars
  IN  capitalised(Words(line))

\* the result dict of extract_kenyan_id_details before any line is read
EmptyDetails ==
  [id_number |-> None, full_name |-> None, date_of_birth |-> None, gender |-> None,
   other_details |-> None]

\* one pass of the loop body of extract_kenyan_id_details over a line
ExtractLine(result, line) ==
  IF result.id_number = None /\ KenyanIdFullmatch(line)
  THEN [result EXCEPT !.id_number = Some(line)]
  ELSE
    LET update(date, gender) ==
          [result EXCEPT
             !.date_of_birth = IF result.date_of_birth = None /\ date # None
                               THEN date ELSE @,
             !.gender = IF result.gender = None /\ gender # None
                        THEN Some(Capitalize(gender[1])) ELSE @,
             !.full_name = IF @ = None /\ LooksLikeName(line) THEN Some(line) ELSE @]
    IN  update(IF result.date_of_birth = None THEN DateSearch(line) ELSE None,
               IF result.gender = None THEN GenderSearch(line) ELSE None)

RECURSIVE ExtractLines(_, _)
ExtractLines(result, lines) ==
  IF lines = <<>> THEN result
  ELSE ExtractLines(ExtractLine(result, Head(lines)), Tail(lines))

\* lines = [line.strip() for line in text.split('\n') if line.strip()]
TextLines(text) ==
  LET stripped(raw) == [i \in 1..Len(raw) |-> Strip(raw[i])]
  IN  SelectSeq(stripped(SplitLines(text)), LAMBDA l : l # <<>>)

\* extract_kenyan_id_details(image_path)
ExtractKenyanIdDetails(img) ==
  LET details(got) == IF ~got[1] THEN EmptyDetails
                      ELSE ExtractLines(EmptyDetails, TextLines(got[2]))
  IN  details(OcrExtractText(img))

-----------------------------------------------------------------------------
(* app/services/validation_service.py: ValidationService *)

\* {**back_details, **front_details}
MergeDicts(back_details, front_details) ==
  [k \in DOMAIN back_details \cup DOMAIN front_details |->
     IF k \in DOMAIN front_details THEN front_details[k] ELSE back_details[k]]

\* extract_kenyan_id_details of each image submitted as a side of the card: the
\* result depends on the image alone, so it is computed once per image
CardDetails == [img \in IdFronts \cup IdBacks |-> ExtractKenyanIdDetails(img)]

\* _process_id_card(front_path, back_path)
ProcessIdCard(front, back) ==
  LET result(merged) == [id_number |-> merged["id_number"],
                         full_name |-> merged["full_name"],
                         date_of_birth |-> merged["date_of_birth"],
                         gender |-> merged["gender"]]
  IN  result(MergeDicts(CardDetails[back], CardDetails[front]))

\* _validate_id_number(id_number)
ServiceValidateIdNumber(id_number) ==
  LET is_valid == ValidateKenyanIdNumber(id_number)
  IN  [id_number_valid |-> is_valid, id_pattern_matched |-> is_valid]

\* _compare_faces(selfie_path, id_photo_path)
ServiceCompareFaces(selfie, id_photo) ==
  IF ~selfie.readable \/ ~id_photo.readable
  THEN [is_match |-> FALSE, confidence |-> 0, message |-> "Error comparing faces"]
  ELSE IF ~DetectFaces(selfie) \/ ~DetectFaces(id_photo)
  THEN [is_match |-> FALSE, confidence |-> 0,
        message |-> "Could not detect faces in one or both images"]
  ELSE CompareFaces(selfie, id_photo, Tolerance)

\* _validate_phone_number(phone_number)
ServiceValidatePhoneNumber(phone_number) ==
  IF ~StartsWith(S_Plus254, phone_number)
  THEN [is_valid |-> FALSE, message |-> "Phone number must start with +254",
        normalized_number |-> None]
  ELSE IF ~IsDigits(SubSeq(phone_number, 5, Len(phone_number))) \/ Len(phone_number) # 13
  THEN [is_valid |-> FALSE, message |-> "Invalid phone number format",
        normalized_number |-> None]
  ELSE [is_valid |-> TRUE, message |-> "Valid phone number",
        normalized_number |-> Some(phone_number)]

\* _verify_name_match(provided_name, extracted_name)
VerifyNameMatch(provided_name, extracted_name) ==
  IF extracted_name = None \/ extracted_name = Some(<<>>) THEN FALSE
  ELSE Lower(provided_name) = Lower(extracted_name[1])

\* is_verified of ValidationService.validate_kenyan_id
ServiceIsVerified(id_validation, face_match_result, phone_validation, name_match) ==
  /\ id_validation.id_number_valid
  /\ id_validation.id_pattern_matched
  /\ face_match_result.is_match
  /\ phone_validation.is_valid
  /\ name_match

\* SavedFiles with the exception of a failing save lost: a fault that C25's formula
\* detects
SavedFilesNoRaise(selfie, id_front, id_back) ==
  [created |-> {"_selfie.jpg", "_id_front.jpg", "_id_back.jpg"}, returned |-> TRUE]

\* the files the three save_uploaded_file calls leave on disk, up to the first that
\* raises
SavedFiles(selfie, id_front, id_back) ==
  LET s1 == SaveUploadedFile(selfie, "_selfie.jpg")
      s2 == SaveUploadedFile(id_front, "_id_front.jpg")
      s3 == SaveUploadedFile(id_back, "_id_back.jpg")
  IN  [created |-> s1.created
                     \cup (IF s1.returned THEN s2.created ELSE {})
                     \cup (IF s1.returned /\ s2.returned THEN s3.created ELSE {}),
       returned |-> s1.returned /\ s2.returned /\ s3.returned]

\* the ValidationResponse of validate_kenyan_id, and the temporary files on disk
\* after its finally block has run
ServiceResponse(name, id_number, phone_number, selfie, id_front, id_back) ==
  LET saved == SavedFiles(selfie, id_front, id_back)
      temp_files == IF saved.returned THEN saved.created ELSE {}
      respond(id_validation, ocr_result, face_match_result, phone_validation) ==
        LET name_match == VerifyNameMatch(name, ocr_result.full_name)
        IN  [status |-> "success",
             is_verified |-> ServiceIsVerified(id_validation, face_match_result,
                                               phone_validation, name_match),
             id_validation |-> id_validation,
             face_match |-> face_match_result,
             phone_validation |-> phone_validation,
             name_match |-> name_match,
             ocr_extracted_data |-> ocr_result,
             files_left |-> saved.created \ temp_files]
  IN  IF ~saved.returned
      THEN [status |-> "error", is_verified |-> FALSE,
            files_left |-> saved.created \ temp_files]
      ELSE respond(ServiceValidateIdNumber(id_number),
                   ProcessIdCard(id_front, id_back),
                   ServiceCompareFaces(selfie, id_front),
                   ServiceValidatePhoneNumber(phone_number))

ServiceValidateKenyanId ==
  /\ pc = "idle"
  /\ \E name \in Names, id_number \in IdNumbers, phone_number \in Phones,
        selfie \in Selfies, id_front \in IdFronts, id_back \in IdBacks :
       /\ req' = [name |-> name, id_number |-> id_number, phone_number |-> phone_number,
                  selfie |-> selfie, id_front |-> id_front, id_back |-> id_back]
       /\ resp' = ServiceResponse(name, id_number, phone_number, selfie, id_front, id_back)
  /\ op' = "service"
  /\ pc' = "done"

-----------------------------------------------------------------------------
(* compare_faces of image_utils called on two loaded images *)

\* largest distance, in units of 0.1, between the first faces of two images
MaxDistance == 14

\* first-face encodings of the images compared: 0.0, 0.1, ... and the neighbours of
\* the tolerance
Encodings == {10000 * k : k \in 0..MaxDistance} \cup {59999, 60001}

ComparedImages ==
  {CorruptImage} \cup {Image(n, FaceList(e, n), <<>>) : e \in Encodings, n \in 0..MaxFaces}

\* compare_faces(known_image, unknown_image): any exception of the face engine is
\* caught and becomes a no-match
CompareFacesResult(known_image, unknown_image) ==
  IF ~known_image.readable \/ ~unknown_image.readable
  THEN [is_match |-> FALSE, confidence |-> 0, message |-> "Error comparing faces"]
  ELSE CompareFaces(known_image, unknown_image, Tolerance)

CompareFacesCall ==
  /\ pc = "idle"
  /\ \E known_image \in ComparedImages, unknown_image \in {Image(1, <<0>>, <<>>),
                                                          Image(0, <<>>, <<>>)} :
       /\ req' = [known_image |-> known_image, unknown_image |-> unknown_image]
       /\ resp' = CompareFacesResult(known_image, unknown_image)
  /\ op' = "compare_faces"
  /\ pc' = "done"

-----------------------------------------------------------------------------
(* main.py: POST /validate-id *)

\* longest run of digits after the first subscriber digit in a submitted phone number
MaxPhoneTail == 9

\* prefixes, first subscriber digits and tails of the phone numbers submitted
PhonePrefixes == {<<>>, S_Zero, S_Plus254, S_KE, S_Plus, <<"0", "0">>}

PhoneTails ==
  {DigitRun(n) : n \in 7..MaxPhoneTail}
    \cup {<<"2", "3", "4", "5", "6", "7", "8", "x">>, <<"2", "3", "4", "5", "6", "7", "8", "\n">>,
          <<"2", "3", "4", "5", "6", "7", "8", "9", "\n">>}

ValidateIdPhones ==
  {pre \o <<d>> \o tail : pre \in PhonePrefixes, d \in {"1", "7", "2", "0"}, tail \in PhoneTails}

\* re.fullmatch(r'^(\+254|0)?[17]\d{8}$', phone_number)
PhoneRegexFullmatch(phone_number) ==
  \E pre \in {S_Plus254, S_Zero, <<>>} :
    /\ StartsWith(pre, phone_number)
    /\ Len(phone_number) = Len(pre) + 9
    /\ phone_number[Len(pre) + 1] \in {"1", "7"}
    /\ IsDigits(SubSeq(phone_number, Len(pre) + 1, Len(phone_number)))

\* StandardizePhone with the leading 0 kept: a fault that C10's formula detects
StandardizePhoneKeepZero(phone_number) ==
  IF ~StartsWith(S_Plus254, phone_number)
  THEN S_Plus254 \o phone_number
  ELSE phone_number

\* the standardisation to the +254 format
StandardizePhone(phone_number) ==
  IF StartsWith(S_Zero, phone_number)
  THEN S_Plus254 \o SubSeq(phone_number, 2, Len(phone_number))
  ELSE IF ~StartsWith(S_Plus254, phone_number)
  THEN S_Plus254 \o phone_number
  ELSE phone_number

\* the response of validate_id
ValidateIdResponse(name, id_number, phone_number) ==
  IF ~PhoneRegexFullmatch(phone_number)
  THEN [http |-> 400, detail |-> "Invalid phone number format"]
  ELSE [http |-> 200, status |-> "success",
        data |-> [name |-> name, id_number |-> id_number,
                  phone_number |-> StandardizePhone(phone_number)]]

ValidateId ==
  /\ pc = "idle"
  /\ \E name \in Names, id_number \in {S_Id8}, phone_number \in ValidateIdPhones :
       /\ req' = [name |-> name, id_number |-> id_number, phone_number |-> phone_number]
       /\ resp' = ValidateIdResponse(name, id_number, phone_number)
  /\ op' = "validate_id"
  /\ pc' = "done"

-----------------------------------------------------------------------------
(* The two ID-number format validators applied to a submitted string *)

\* the id_number strings submitted: digit strings of every length up to one more than
\* the longest accepted, and digit strings with another character before, inside or
\* after them
IdCandidates ==
  {DigitRun(n) : n \in 0..(MaxIdLen + 1)}
    \cup {DigitRun(n) \o S_Nl : n \in 6..MaxIdLen}
    \cup {S_Sp \o DigitRun(n) : n \in 7..MaxIdLen}
    \cup {DigitRun(n) \o <<"A">> : n \in 6..MaxIdLen}
    \cup {<<"1", "2", "3", "x", "5", "6", "7", "8">>, <<"1", "2", "3", "4", "\n", "6", "7", "8">>}

\* is_valid_id of the endpoint (validation.py) and
\* OCRService.validate_kenyan_id_number (ocr_utils.py) for one id_number
ValidateIdNumberCall ==
  /\ pc = "idle"
  /\ \E id_number \in IdCandidates :
       /\ req' = [id_number |-> id_number]
       /\ resp' = [is_valid_id |-> EndpointIdValid(id_number),
                   validate_kenyan_id_number |-> ValidateKenyanIdNumber(id_number)]
  /\ op' = "id_format"
  /\ pc' = "done"

-----------------------------------------------------------------------------
(* Python's re, as far as kyc-validator/src/services/ocr_service.py uses it: a
   pattern is a tree of nodes, and the match found is the one backtracking finds
   first: the first alternative and the largest (greedy) or smallest (lazy)
   repetition count with which the rest of the pattern matches. *)

\* a literal string
ReLit(str) == [t |-> "lit", s |-> str]

\* class{min,max}, greedy or lazy (class+? and class*?)
ReRep(class, min, max, greedy) ==
  [t |-> "rep", c |-> class, min |-> min, max |-> max, greedy |-> greedy]

\* the nodes of a sequence, one after the other
ReSeq(nodes) == [t |-> "seq", of |-> nodes]

\* a|b|..., the alternatives tried from left to right
ReAlt(nodes) == [t |-> "alt", of |-> nodes]

\* (node), the one capturing group of a pattern
ReGroup(node) == [t |-> "group", of |-> node]

\* (?=node)
ReLook(node) == [t |-> "look", of |-> node]

\* $
ReEnd == [t |-> "end"]

\* no upper limit of a repetition
ReMany == 1000

RECURSIVE ReRun(_, _, _, _)

\* The match of the nodes todo, one after the other, against s from index p on, g
\* being the span of the group so far: the end of the match and the span of the group,
\* or None.
ReRun(todo, s, p, g) ==
  IF todo = <<>> THEN Some([e |-> p, g |-> g])
  ELSE
    LET step(re, rest) ==
          CASE re.t = "lit" ->
                 IF StartsAt(re.s, s, p) THEN ReRun(rest, s, p + Len(re.s), g) ELSE None
            [] re.t = "end" ->
                 IF AtDollar(s, p) THEN ReRun(rest, s, p, g) ELSE None
            [] re.t = "seq" -> ReRun(re.of \o rest, s, p, g)
            [] re.t = "alt" ->
                 IF re.of = <<>> THEN None
                 ELSE LET orElse(first) ==
                            IF first # None THEN first
                            ELSE ReRun(<<ReAlt(Tail(re.of))>> \o rest, s, p, g)
                      IN  orElse(ReRun(<<Head(re.of)>> \o rest, s, p, g))
            [] re.t = "rep" ->
                 LET counted(ns) ==
                       IF ns = {} THEN None
                       ELSE ReRun(rest, s, p + (IF re.greedy THEN Max(ns) ELSE Min(ns)), g)
                 IN  counted({n \in re.min..Min({RunLen(s, p, re.c), re.max}) :
                                ReRun(rest, s, p + n, g) # None})
            [] re.t = "group" ->
                 ReRun(<<re.of, [t |-> "mark", from |-> p]>> \o rest, s, p, g)
            [] re.t = "mark" -> ReRun(rest, s, p, <<re.from, p>>)
            [] re.t = "look" ->
                 IF ReRun(<<re.of>>, s, p, g) # None THEN ReRun(rest, s, p, g) ELSE None
    IN  step(Head(todo), Tail(todo))

\* re.search(pattern, s): group(1) of the leftmost match, or None
ReSearch(pattern, s) ==
  LET group(m) == Some(SubSeq(s, m[1].g[1], m[1].g[2] - 1))
      leftmost(starts) ==
        IF starts = {} THEN None ELSE group(ReRun(<<pattern>>, s, Min(starts), <<>>))
  IN  leftmost({p \in 1..(Len(s) + 1) : ReRun(<<pattern>>, s, p, <<>>) # None})

-----------------------------------------------------------------------------
(* kyc-validator/src/services/ocr_service.py: parse_id_info *)

\* the words of the patterns of parse_id_info, which it applies to the lower-cased text
Word ==
  [id |-> <<"i", "d">>,
   number |-> <<"n", "u", "m", "b", "e", "r">>,
   no |-> <<"n", "o">>,
   namba |-> <<"n", "a", "m", "b", "a">>,
   ya |-> <<"y", "a">>,
   kitambulisho |-> <<"k", "i", "t", "a", "m", "b", "u", "l", "i", "s", "h", "o">>,
   full |-> <<"f", "u", "l", "l">>,
   name |-> <<"n", "a", "m", "e">>,
   jina |-> <<"j", "i", "n", "a">>,
   kamili |-> <<"k", "a", "m", "i", "l", "i">>,
   date |-> <<"d", "a", "t", "e">>,
   of |-> <<"o", "f">>,
   birth |-> <<"b", "i", "r", "t", "h">>,
   dob |-> <<"d", "o", "b">>,
   sex |-> <<"s", "e", "x">>,
   surname |-> <<"s", "u", "r", "n", "a", "m", "e">>,
   given |-> <<"g", "i", "v", "e", "n">>,
   siku |-> <<"s", "i", "k", "u">>,
   kuzaliwa |-> <<"k", "u", "z", "a", "l", "i", "w", "a">>,
   jinsia |-> <<"j", "i", "n", "s", "i", "a">>,
   male |-> <<"m", "a", "l", "e">>,
   female |-> <<"f", "e", "m", "a", "l", "e">>,
   m |-> <<"m">>,
   f |-> <<"f">>,
   man |-> <<"m", "a", "n">>,
   woman |-> <<"w", "o", "m", "a", "n">>,
   mwanaume |-> <<"m", "w", "a", "n", "a", "u", "m", "e">>,
   mwanamke |-> <<"m", "w", "a", "n", "a", "m", "k", "e">>,
   nationality |-> <<"n", "a", "t", "i", "o", "n", "a", "l", "i", "t", "y">>,
   district |-> <<"d", "i", "s", "t", "r", "i", "c", "t">>,
   place |-> <<"p", "l", "a", "c", "e">>,
   issue |-> <<"i", "s", "s", "u", "e">>,
   issued |-> <<"i", "s", "s", "u", "e", "d">>,
   at |-> <<"a", "t">>,
   mkoa |-> <<"m", "k", "o", "a">>,
   wa |-> <<"w", "a">>,
   utoaji |-> <<"u", "t", "o", "a", "j", "i">>,
   on |-> <<"o", "n">>,
   tarehe |-> <<"t", "a", "r", "e", "h", "e">>,
   kuandikishwa |-> <<"k", "u", "a", "n", "d", "i", "k", "i", "s", "h", "w", "a">>,
   expiry |-> <<"e", "x", "p", "i", "r", "y">>,
   kuisha |-> <<"k", "u", "i", "s", "h", "a">>,
   huduma |-> <<"h", "u", "d", "u", "m", "a">>,
   national |-> <<"n", "a", "t", "i", "o", "n", "a", "l">>,
   identity |-> <<"i", "d", "e", "n", "t", "i", "t", "y">>]

\* the characters of the texts read from a card, for the negated class [^a-z0-9]
TextChars ==
  UpperChars \cup LowerChars \cup DigitChars \cup SpaceChars
    \cup {":", ".", "-", "/", "_", ",", "#", "+"}

\* \s* (min 0) and \s+ (min 1)
ReSpaces(min) == ReRep(SpaceChars, min, ReMany, TRUE)

\* [\s:]* (min 0) and [\s:]+ (min 1)
ReSep(min) == ReRep(SpaceChars \cup {":"}, min, ReMany, TRUE)

\* the words of a label, \s* between one and the next
RECURSIVE ReWordsFrom(_)
ReWordsFrom(words) ==
  IF Len(words) = 1 THEN <<ReLit(words[1])>>
  ELSE <<ReLit(words[1]), ReSpaces(0)>> \o ReWordsFrom(Tail(words))

ReWords(words) == ReSeq(ReWordsFrom(words))

\* [0-9]{1,2}[.\-/][0-9]{1,2}[.\-/][0-9]{2,4}
ReDate ==
  ReSeq(<<ReRep(DigitChars, 1, 2, TRUE), ReRep({".", "-", "/"}, 1, 1, TRUE),
          ReRep(DigitChars, 1, 2, TRUE), ReRep({".", "-", "/"}, 1, 1, TRUE),
          ReRep(DigitChars, 2, 4, TRUE)>>)

\* (?=\s+[a-z]+\s*[\s:]|$), the start of the next label or the end of the text
ReNextLabelOrEnd ==
  ReLook(ReAlt(<<ReSeq(<<ReSpaces(1), ReRep(LowerChars, 1, ReMany, TRUE), ReSpaces(0),
                         ReRep(SpaceChars \cup {":"}, 1, 1, TRUE)>>),
                 ReEnd>>))

\* (?=date\s*of\s*birth|dob|sex|$) with more == <<ReLit(Word.sex)>>, and
\* (?=date\s*of\s*birth|dob|$) with more == <<>>
ReBeforeBirth(more) ==
  ReLook(ReAlt(<<ReWords(<<Word.date, Word.of, Word.birth>>), ReLit(Word.dob)>>
               \o more \o <<ReEnd>>))

\* the patterns of id_number
IdNumberPatterns ==
  [
   \* r'id\s*number[\s:]*([a-z0-9]+)'
   huduma |->
     ReSeq(<<ReWords(<<Word.id, Word.number>>), ReSep(0),
             ReGroup(ReRep(LowerChars \cup DigitChars, 1, ReMany, TRUE))>>),
   \* r'id\s*number[^a-z0-9]*([a-z0-9]{5,})'
   huduma_fallback |->
     ReSeq(<<ReWords(<<Word.id, Word.number>>),
             ReRep(TextChars \ (LowerChars \cup DigitChars), 0, ReMany, TRUE),
             ReGroup(ReRep(LowerChars \cup DigitChars, 5, ReMany, TRUE))>>),
   \* r'(?:id\s*(?:no\.?|number)?\s*[\s:]+|namba\s*ya\s*kitambulisho[\s:]+)([a-z0-9\s]+?)(?=\s+[a-z]+\s*[\s:]|$)'
   national |->
     ReSeq(<<ReAlt(<<ReSeq(<<ReLit(Word.id), ReSpaces(0),
                             ReAlt(<<ReSeq(<<ReLit(Word.no), ReRep({"."}, 0, 1, TRUE)>>),
                                     ReLit(Word.number), ReSeq(<<>>)>>),
                             ReSpaces(0), ReSep(1)>>),
                     ReSeq(<<ReWords(<<Word.namba, Word.ya, Word.kitambulisho>>), ReSep(1)>>)>>),
             ReGroup(ReRep(LowerChars \cup DigitChars \cup SpaceChars, 1, ReMany, FALSE)),
             ReNextLabelOrEnd>>)]

\* the patterns of full_name
FullNamePatterns ==
  [
   \* r'(?:full\s*names?|jina\s*kamili)[\s:]*([a-z\s]+?)(?=date\s*of\s*birth|dob|sex|$)'
   huduma |->
     ReSeq(<<ReAlt(<<ReSeq(<<ReWords(<<Word.full, Word.name>>), ReRep({"s"}, 0, 1, TRUE)>>),
                     ReWords(<<Word.jina, Word.kamili>>)>>),
             ReSep(0),
             ReGroup(ReRep(LowerChars \cup SpaceChars, 1, ReMany, FALSE)),
             ReBeforeBirth(<<ReLit(Word.sex)>>)>>),
   \* r'surname[\s:]+([a-z\s-]+?)(?=\s+given|\s+sex|$)'
   surname |->
     ReSeq(<<ReLit(Word.surname), ReSep(1),
             ReGroup(ReRep(LowerChars \cup SpaceChars \cup {"-"}, 1, ReMany, FALSE)),
             ReLook(ReAlt(<<ReSeq(<<ReSpaces(1), ReLit(Word.given)>>),
                            ReSeq(<<ReSpaces(1), ReLit(Word.sex)>>), ReEnd>>))>>),
   \* r'given\s*name[\s:]+([a-z\s-]+?)(?=\s+sex|$)'
   given |->
     ReSeq(<<ReWords(<<Word.given, Word.name>>), ReSep(1),
             ReGroup(ReRep(LowerChars \cup SpaceChars \cup {"-"}, 1, ReMany, FALSE)),
             ReLook(ReAlt(<<ReSeq(<<ReSpaces(1), ReLit(Word.sex)>>), ReEnd>>))>>),
   \* r'names?[\s:]*([a-z\s]+?)(?=date\s*of\s*birth|dob|sex|$)'
   huduma_fallback |->
     ReSeq(<<ReLit(Word.name), ReRep({"s"}, 0, 1, TRUE), ReSep(0),
             ReGroup(ReRep(LowerChars \cup SpaceChars, 1, ReMany, FALSE)),
             ReBeforeBirth(<<ReLit(Word.sex)>>)>>),
   \* r'(?:id\s*[a-z0-9\s]+)([a-z\s]+?)(?=date\s*of\s*birth|dob|$)'
   national_fallback |->
     ReSeq(<<ReLit(Word.id), ReSpaces(0),
             ReRep(LowerChars \cup DigitChars \cup SpaceChars, 1, ReMany, TRUE),
             ReGroup(ReRep(LowerChars \cup SpaceChars, 1, ReMany, FALSE)),
             ReBeforeBirth(<<>>)>>)]

\* r'(?:sex|jinsia)\s*[\s:]+(male|female|m|f|man|woman|mwanaume|mwanamke)'
GenderPattern ==
  ReSeq(<<ReAlt(<<ReLit(Word.sex), ReLit(Word.jinsia)>>), ReSpaces(0), ReSep(1),
          ReGroup(ReAlt(<<ReLit(Word.male), ReLit(Word.female), ReLit(Word.m), ReLit(Word.f),
                          ReLit(Word.man), ReLit(Word.woman), ReLit(Word.mwanaume),
                          ReLit(Word.mwanamke)>>))>>)

\* the patterns of date_of_birth, date_of_issue and expiry_date
DatePatterns ==
  [
   \* r'(?:date\s*of\s*birth|siku\s*ya\s*kuzaliwa|dob)[\s:]+([0-9]{1,2}[.\-/][0-9]{1,2}[.\-/][0-9]{2,4})'
   date_of_birth |->
     ReSeq(<<ReAlt(<<ReWords(<<Word.date, Word.of, Word.birth>>), ReWords(<<Word.siku, Word.ya, Word.kuzaliwa>>),
                     ReLit(Word.dob)>>),
             ReSep(1), ReGroup(ReDate)>>),
   \* r'(?:date\s*of\s*issue|issued\s*on|tarehe\s*ya\s*kuandikishwa)[\s:]+([0-9]{1,2}[.\-/][0-9]{1,2}[.\-/][0-9]{2,4})'
   date_of_issue |->
     ReSeq(<<ReAlt(<<ReWords(<<Word.date, Word.of, Word.issue>>), ReWords(<<Word.issued, Word.on>>),
                     ReWords(<<Word.tarehe, Word.ya, Word.kuandikishwa>>)>>),
             ReSep(1), ReGroup(ReDate)>>),
   \* r'(?:date\s*of\s*expiry|expiry\s*date|tarehe\s*ya\s*kuisha)[\s:]+([0-9]{1,2}[.\-/][0-9]{1,2}[.\-/][0-9]{2,4}|[a-z]+\s*[0-9]{1,2}[.\-/][0-9]{2,4})'
   expiry_date |->
     ReSeq(<<ReAlt(<<ReWords(<<Word.date, Word.of, Word.expiry>>), ReWords(<<Word.expiry, Word.date>>),
                     ReWords(<<Word.tarehe, Word.ya, Word.kuisha>>)>>),
             ReSep(1),
             ReGroup(ReAlt(<<ReDate,
                             ReSeq(<<ReRep(LowerChars, 1, ReMany, TRUE), ReSpaces(0),
                                     ReRep(DigitChars, 1, 2, TRUE),
                                     ReRep({".", "-", "/"}, 1, 1, TRUE),
                                     ReRep(DigitChars, 2, 4, TRUE)>>)>>))>>)]

\* the patterns of nationality, district_of_birth and place_of_issue
PlacePatterns ==
  [
   \* r'nationality\s*[\s:]+([a-z\s]+?)(?=\s+[a-z]+\s*[\s:]|$)'
   nationality |->
     ReSeq(<<ReLit(Word.nationality), ReSpaces(0), ReSep(1),
             ReGroup(ReRep(LowerChars \cup SpaceChars, 1, ReMany, FALSE)),
             ReNextLabelOrEnd>>),
   \* r'(?:district\s*of\s*birth|birth\s*district|place\s*of\s*birth|mkoa\s*wa\s*kuzaliwa)\s*[\s:]+([a-z\s]+?)(?=\s+[a-z]+\s*[\s:]|$)'
   district_of_birth |->
     ReSeq(<<ReAlt(<<ReWords(<<Word.district, Word.of, Word.birth>>), ReWords(<<Word.birth, Word.district>>),
                     ReWords(<<Word.place, Word.of, Word.birth>>),
                     ReWords(<<Word.mkoa, Word.wa, Word.kuzaliwa>>)>>),
             ReSpaces(0), ReSep(1),
             ReGroup(ReRep(LowerChars \cup SpaceChars, 1, ReMany, FALSE)),
             ReNextLabelOrEnd>>),
   \* r'(?:place\s*of\s*issue|issued\s*at|issue\s*place|mkoa\s*wa\s*utoaji)\s*[\s:]+([a-z\s]+?)(?=\s+[a-z]+\s*[\s:]|$)'
   place_of_issue |->
     ReSeq(<<ReAlt(<<ReWords(<<Word.place, Word.of, Word.issue>>), ReWords(<<Word.issued, Word.at>>),
                     ReWords(<<Word.issue, Word.place>>), ReWords(<<Word.mkoa, Word.wa, Word.utoaji>>)>>),
             ReSpaces(0), ReSep(1),
             ReGroup(ReRep(LowerChars \cup SpaceChars, 1, ReMany, FALSE)),
             ReNextLabelOrEnd>>)]

\* ' '.join(word.capitalize() for word in s.split())
CapitalizeWords(s) ==
  LET joined(words) == Join([i \in 1..Len(words) |-> Capitalize(words[i])], S_Sp)
  IN  joined(Words(s))

\* s.strip().upper()
StripUpper(s) == Upper(Strip(s))

\* s.strip().title()
StripTitle(s) == Title(Strip(s))

\* s.replace(' ', '')
RemoveSpaces(s) == SelectSeq(s, LAMBDA c : c # " ")

\* 'Male' if gender in ['m', 'male', 'man', 'mwanaume'] else 'Female'
GenderOf(gender) == IF gender \in {Word.m, Word.male, Word.man, Word.mwanaume} THEN "Male" ELSE "Female"

\* the value a field gets from the match of its pattern: group(1) converted as the
\* field's assignment converts it, or nothing
Stored(match, conversion) ==
  IF match = None THEN None
  ELSE Some(CASE conversion = "strip_upper" -> StripUpper(match[1])
              [] conversion = "strip_title" -> StripTitle(match[1])
              [] conversion = "capitalize_words" -> CapitalizeWords(match[1])
              [] conversion = "remove_spaces" -> RemoveSpaces(match[1])
              [] conversion = "gender" -> GenderOf(match[1]))

\* id_info as it is initialised, raw_text being the argument
IdInfoDefaults(raw_text) ==
  [id_number |-> None, full_name |-> None, date_of_birth |-> None, gender |-> None,
   document_type |-> None, nationality |-> None, place_of_issue |-> None,
   date_of_issue |-> None, expiry_date |-> None, district_of_birth |-> None,
   raw_text |-> raw_text]

\* {k: v for k, v in id_info.items() if v is not None}
Present(id_info) ==
  [k \in {f \in DOMAIN id_info : id_info[f] # None} |-> id_info[k]]

\* document_type of the lower-cased text
DocumentType(text) ==
  IF Contains(Word.huduma, text) THEN Some("huduma_card")
  ELSE IF Contains(Word.national, text) /\ Contains(Word.identity, text) THEN Some("national_id")
  ELSE None

\* id_number of the lower-cased text
ParsedIdNumber(text, document_type) ==
  Stored(IF document_type = Some("huduma_card")
         THEN FirstMatch(<<ReSearch(IdNumberPatterns.huduma, text),
                           ReSearch(IdNumberPatterns.huduma_fallback, text)>>)
         ELSE ReSearch(IdNumberPatterns.national, text),
         "strip_upper")

\* full_name of the lower-cased text: the pattern of the document type, and the
\* fallback pattern when that left no name or an empty one
ParsedFullName(text, document_type) ==
  LET joined(surname, given) ==
        IF surname # None /\ given # None
        THEN Some(StripTitle(surname[1]) \o S_Sp \o StripTitle(given[1]))
        ELSE None
      specific ==
        IF document_type = Some("huduma_card")
        THEN Stored(ReSearch(FullNamePatterns.huduma, text), "capitalize_words")
        ELSE joined(ReSearch(FullNamePatterns.surname, text), ReSearch(FullNamePatterns.given, text))
      fallback ==
        Stored(ReSearch(IF document_type = Some("huduma_card")
                        THEN FullNamePatterns.huduma_fallback
                        ELSE FullNamePatterns.national_fallback, text),
               "capitalize_words")
      chosen(first, second) ==
        IF first # None /\ first # Some(<<>>) THEN first
        ELSE IF second # None THEN second ELSE first
  IN  chosen(specific, fallback)

\* the except branch of parse_id_info with no diagnostic note: a fault that C14's
\* formula detects
ParseIdInfoExceptSilent(id_info) == Present(id_info)

\* the except branch of parse_id_info: the fields so far and the 'error' note
ParseIdInfoExcept(id_info) ==
  Present([k \in DOMAIN id_info \cup {"error"} |->
             IF k = "error" THEN Some("Error during parsing") ELSE id_info[k]])

\* parse_id_info(ocr_text) for a str argument
ParseIdInfoText(ocr_text) ==
  LET parsed(text, document_type) ==
        [id_number |-> ParsedIdNumber(text, document_type),
         full_name |-> ParsedFullName(text, document_type),
         date_of_birth |-> Stored(ReSearch(DatePatterns.date_of_birth, text), "remove_spaces"),
         gender |-> Stored(ReSearch(GenderPattern, text), "gender"),
         document_type |-> document_type,
         nationality |-> Stored(ReSearch(PlacePatterns.nationality, text), "strip_title"),
         place_of_issue |-> Stored(ReSearch(PlacePatterns.place_of_issue, text), "strip_title"),
         date_of_issue |-> Stored(ReSearch(DatePatterns.date_of_issue, text), "remove_spaces"),
         expiry_date |-> Stored(ReSearch(DatePatterns.expiry_date, text), "remove_spaces"),
         district_of_birth |-> Stored(ReSearch(PlacePatterns.district_of_birth, text), "strip_title"),
         raw_text |-> Some(ocr_text)]
      typed(text) == parsed(text, DocumentType(text))
  IN  Present(typed(Lower(ocr_text)))

\* parse_id_info(ocr_text): of a str, the fields found; of bytes, 'huduma' in text
\* raises TypeError after raw_text was set; of None, ocr_text.lower() raises
\* AttributeError; both exceptions are caught
ParseIdInfo(ocr_text) ==
  IF ocr_text.kind = "str" THEN ParseIdInfoText(ocr_text.text)
  ELSE IF ocr_text.kind = "bytes" THEN ParseIdInfoExcept(IdInfoDefaults(Some(ocr_text.text)))
  ELSE ParseIdInfoExcept(IdInfoDefaults(None))

\* texts read from a card, as parse_id_info gets them
CardText ==
  [
   \* "DAVID KAMAU"
   david_kamau |->
     <<"D", "A", "V", "I", "D", " ", "K", "A", "M", "A", "U">>,
   \* "IDENTITY CARD"
   identity_card |->
     <<"I", "D", "E", "N", "T", "I", "T", "Y", " ", "C", "A", "R", "D">>,
   \* "Jane Doe\n87654321"
   name_lines |->
     <<"J", "a", "n", "e", " ", "D", "o", "e", "\n", "8", "7", "6", "5", "4", "3", "2", "1">>,
   \* "NATIONAL IDENTITY CARD ID NO: 12345678 SURNAME: KAMAU GIVEN NAME: JOHN SEX: M DATE OF BIRTH: 01.02.1990 NATIONALITY: KENYAN PLACE OF ISSUE: NAIROBI DATE OF ISSUE: 03/04/2015"
   national_card |->
     <<"N", "A", "T", "I", "O", "N", "A", "L", " ", "I", "D", "E", "N", "T", "I", "T", "Y",
       " ", "C", "A", "R", "D", " ", "I", "D", " ", "N", "O", ":", " ", "1", "2", "3", "4",
       "5", "6", "7", "8", " ", "S", "U", "R", "N", "A", "M", "E", ":", " ", "K", "A", "M",
       "A", "U", " ", "G", "I", "V", "E", "N", " ", "N", "A", "M", "E", ":", " ", "J", "O",
       "H", "N", " ", "S", "E", "X", ":", " ", "M", " ", "D", "A", "T", "E", " ", "O", "F",
       " ", "B", "I", "R", "T", "H", ":", " ", "0", "1", ".", "0", "2", ".", "1", "9", "9",
       "0", " ", "N", "A", "T", "I", "O", "N", "A", "L", "I", "T", "Y", ":", " ", "K", "E",
       "N", "Y", "A", "N", " ", "P", "L", "A", "C", "E", " ", "O", "F", " ", "I", "S", "S",
       "U", "E", ":", " ", "N", "A", "I", "R", "O", "B", "I", " ", "D", "A", "T", "E", " ",
       "O", "F", " ", "I", "S", "S", "U", "E", ":", " ", "0", "3", "/", "0", "4", "/", "2",
       "0", "1", "5">>,
   \* "HUDUMA NAMBA ID NUMBER: 12345 FULL NAMES: JANE DOE DATE OF BIRTH: 1-2-90 SEX: F"
   huduma_card |->
     <<"H", "U", "D", "U", "M", "A", " ", "N", "A", "M", "B", "A", " ", "I", "D", " ", "N",
       "U", "M", "B", "E", "R", ":", " ", "1", "2", "3", "4", "5", " ", "F", "U", "L", "L",
       " ", "N", "A", "M", "E", "S", ":", " ", "J", "A", "N", "E", " ", "D", "O", "E", " ",
       "D", "A", "T", "E", " ", "O", "F", " ", "B", "I", "R", "T", "H", ":", " ", "1", "-",
       "2", "-", "9", "0", " ", "S", "E", "X", ":", " ", "F">>,
   \* "huduma id number - ab123"
   huduma_dash |->
     <<"h", "u", "d", "u", "m", "a", " ", "i", "d", " ", "n", "u", "m", "b", "e", "r", " ",
       "-", " ", "a", "b", "1", "2", "3">>,
   \* "HUDUMA NAMES: JOHN  KAMAU SEX M"
   huduma_names |->
     <<"H", "U", "D", "U", "M", "A", " ", "N", "A", "M", "E", "S", ":", " ", "J", "O", "H",
       "N", " ", " ", "K", "A", "M", "A", "U", " ", "S", "E", "X", " ", "M">>,
   \* "HUDUMA FULL NAME:   SEX F"
   huduma_no_name |->
     <<"H", "U", "D", "U", "M", "A", " ", "F", "U", "L", "L", " ", "N", "A", "M", "E", ":",
       " ", " ", " ", "S", "E", "X", " ", "F">>,
   \* "ID 12345678 JOHN KAMAU DOB 1/1/1990"
   id_then_name |->
     <<"I", "D", " ", "1", "2", "3", "4", "5", "6", "7", "8", " ", "J", "O", "H", "N", " ",
       "K", "A", "M", "A", "U", " ", "D", "O", "B", " ", "1", "/", "1", "/", "1", "9", "9",
       "0">>,
   \* "NAMBA YA KITAMBULISHO: 1234 JINA KAMILI: X"
   kitambulisho |->
     <<"N", "A", "M", "B", "A", " ", "Y", "A", " ", "K", "I", "T", "A", "M", "B", "U", "L",
       "I", "S", "H", "O", ":", " ", "1", "2", "3", "4", " ", "J", "I", "N", "A", " ", "K",
       "A", "M", "I", "L", "I", ":", " ", "X">>,
   \* "DATE OF EXPIRY: JAN 12/2030"
   expiry |->
     <<"D", "A", "T", "E", " ", "O", "F", " ", "E", "X", "P", "I", "R", "Y", ":", " ", "J",
       "A", "N", " ", "1", "2", "/", "2", "0", "3", "0">>,
   \* "DISTRICT OF BIRTH: KIAMBU"
   district |->
     <<"D", "I", "S", "T", "R", "I", "C", "T", " ", "O", "F", " ", "B", "I", "R", "T", "H",
       ":", " ", "K", "I", "A", "M", "B", "U">>,
   \* "SEXM"
   sex_no_separator |->
     <<"S", "E", "X", "M">>,
   \* "Huduma Namba National Identity Card"
   huduma_national |->
     <<"H", "u", "d", "u", "m", "a", " ", "N", "a", "m", "b", "a", " ", "N", "a", "t", "i", "o", "n", "a", "l", " ", "I", "d", "e", "n", "t", "i", "t", "y", " ", "C", "a", "r", "d">>]

\* a sex or jinsia label, a separator and a gender token, in upper case
GenderTexts ==
  {Upper(label \o sep \o token) :
     label \in {Word.sex, Word.jinsia}, sep \in {S_Sp, <<":", " ">>},
     token \in {Word.male, Word.female, Word.m, Word.f, Word.man, Word.woman,
                 Word.mwanaume, Word.mwanamke}}

ParseTexts ==
  {<<>>, S_Republic, S_Id8, S_JohnKamau, S_Scenario, S_Labelled}
    \cup {CardText[k] : k \in DOMAIN CardText} \cup GenderTexts

\* the arguments of parse_id_info: a str, and the values that are not a str
OcrTextArguments ==
  {[kind |-> "str", text |-> t] : t \in ParseTexts}
    \cup {[kind |-> "bytes", text |-> t] : t \in {<<>>, S_Scenario}}
    \cup {[kind |-> "none", text |-> <<>>]}

ParseIdInfoCall ==
  /\ pc = "idle"
  /\ \E ocr_text \in OcrTextArguments :
       /\ req' = [ocr_text |-> ocr_text]
       /\ resp' = ParseIdInfo(ocr_text)
  /\ op' = "parse_id_info"
  /\ pc' = "done"

-----------------------------------------------------------------------------
(* src/routes/face_validation.py: POST /validate-face, and
   src/services/face_service.py *)

\* compare_faces(image1_bytes, image2_bytes) of face_service: load_image_file raises
\* for bytes that are no image, and nothing in the function catches it
FaceServiceCompareFaces(image1, image2) ==
  IF ~image1.readable \/ ~image2.readable THEN [raised |-> TRUE, match |-> FALSE]
  ELSE IF image1.encs = <<>> \/ image2.encs = <<>> THEN [raised |-> FALSE, match |-> FALSE]
  ELSE [raised |-> FALSE,
        match |-> FaceDistance(image1.encs[1], image2.encs[1]) <= FaceRecognitionTolerance]

\* the response of validate_face
ValidateFaceResponse(image1, image2) ==
  IF ~image1.present \/ ~image2.present
  THEN [http |-> 400, error |-> "Please upload both image1 and image2"]
  ELSE
    LET answer(compared) ==
          IF compared.raised THEN [http |-> 500, error |-> "str(e)"]
          ELSE [http |-> 200, match |-> compared.match,
                message |-> IF compared.match THEN "Faces match"
                            ELSE "Faces do not match"]
    IN  answer(FaceServiceCompareFaces(image1, image2))

ValidateFace ==
  /\ pc = "idle"
  /\ \E image1 \in {NoFile, CorruptImage, Image(0, <<>>, <<>>), Image(1, <<0>>, <<>>)},
        image2 \in {NoFile, CorruptImage, Image(0, <<>>, <<>>), Image(1, <<30000>>, <<>>),
                    Image(1, <<60000>>, <<>>), Image(1, <<120000>>, <<>>)} :
       /\ req' = [image1 |-> image1, image2 |-> image2]
       /\ resp' = ValidateFaceResponse(image1, image2)
  /\ op' = "validate_face"
  /\ pc' = "done"

-----------------------------------------------------------------------------
(* The service holds no state between requests: a handler runs from request to
   response, and the next request starts from nothing. *)

NoRequest == [name |-> <<>>]

NoResponse == [http |-> 0]

Init ==
  /\ pc = "idle"
  /\ op = "none"
  /\ req = NoRequest
  /\ resp = NoResponse

Finish ==
  /\ pc = "done"
  /\ pc' = "idle"
  /\ op' = "none"
  /\ req' = NoRequest
  /\ resp' = NoResponse

Next ==
  \/ EndpointValidateKenyanId
  \/ ValidateKyc
  \/ ServiceValidateKenyanId
  \/ CompareFacesCall
  \/ ValidateId
  \/ ValidateIdNumberCall
  \/ ParseIdInfoCall
  \/ ValidateFace
  \/ Finish

Spec == Init /\ [][Next]_vars

-----------------------------------------------------------------------------
(* Claims *)

\* the responses that carry a verdict
EndpointDone == op = "endpoint" /\ resp.http = 200

KycDone == op = "kyc" /\ resp.http = 200

ServiceDone == op = "service" /\ resp.status = "success"

\* C1: in POST /api/validate/kenyan-id, every request that completes has is_verified
\* true exactly when all five checks it reports hold: ID format valid, phone valid,
\* name found in the ID text, ID number found in the ID text, faces match.
C1_EndpointVerifiedIffAllFive ==
  EndpointDone =>
    (resp.is_verified <=>
       /\ resp.id_validation.is_valid
       /\ resp.phone_validation.is_valid
       /\ resp.ocr_extraction.name_found
       /\ resp.ocr_extraction.id_number_found
       /\ resp.face_detection.faces_match)

\* a verified request of the endpoint
C1_Witness == EndpointDone /\ resp.is_verified

\* C2: in POST /api/validate-kyc, whenever the returned name_match is false the
\* returned is_verified is false.
C2_KycNameMismatchNotVerified ==
  (KycDone /\ ~resp.name_match) => ~resp.is_verified

\* C3: ValidationService.validate_kenyan_id returns is_verified=true only if the
\* ID number read from the card is present and equal to the submitted id_number.
C3_ServiceVerifiedOnlyWithCardId ==
  (ServiceDone /\ resp.is_verified) =>
    resp.ocr_extracted_data.id_number = Some(req.id_number)

\* the request of the end-to-end scenario: John Kamau, 12345678, +254712345678, a
\* selfie and an ID photo whose faces are 0.3 apart, and the scenario's OCR text
C4_ScenarioRequest ==
  /\ op \in {"endpoint", "kyc", "service"}
  /\ req.name = S_JohnKamau
  /\ req.id_number = S_Id8
  /\ req.phone_number = S_PhoneE164
  /\ req.selfie = Image(1, <<0>>, <<>>)
  /\ req.id_front = Image(1, <<30000>>, <<S_Scenario>>)
  /\ op \in {"kyc", "service"} => req.id_back = Image(0, <<>>, <<>>)

\* C4: the end-to-end scenario is answered with is_verified=true, the ID number and
\* the phone number reported valid, and the name check passed.
C4_ScenarioIsVerified ==
  C4_ScenarioRequest =>
    /\ resp.is_verified
    /\ resp.phone_validation.is_valid
    /\ op = "endpoint" =>
         /\ resp.id_validation.is_valid
         /\ resp.ocr_extraction.name_found
         /\ resp.ocr_extraction.id_number_found
    /\ op \in {"kyc", "service"} =>
         /\ resp.id_validation.id_number_valid
         /\ resp.name_match
         /\ resp.ocr_extracted_data.id_number = Some(S_Id8)

\* C5: in each verification variant, a selfie in which the variant's face detector
\* finds no face gives a false face result and is_verified=false, whatever the other
\* checks say.
C5_NoSelfieFaceNotVerified ==
  /\ (EndpointDone /\ (~req.selfie.readable \/ req.selfie.haar = 0)) =>
       (~resp.face_detection.faces_match /\ ~resp.is_verified)
  /\ (op = "service" /\ req.selfie.encs = <<>>) =>
       /\ ~resp.is_verified
       /\ ServiceDone => ~resp.face_match.is_match
  /\ (KycDone /\ req.selfie.encs = <<>>) =>
       (~resp.face_match.is_match /\ ~resp.is_verified)

\* the selfie has no face and every other check of the endpoint passes
C5_Witness ==
  /\ EndpointDone
  /\ req.selfie.readable /\ req.selfie.haar = 0
  /\ resp.id_validation.is_valid
  /\ resp.phone_validation.is_valid
  /\ resp.ocr_extraction.name_found
  /\ resp.ocr_extraction.id_number_found
  /\ resp.face_detection.id_photo_has_face
  /\ ~resp.is_verified

\* C6: a face comparison in which either image yields no face encoding returns
\* is_match=false and confidence exactly 0.0 (compare_faces, _compare_faces and the
\* face step of validate_kyc).
C6_NoFaceNoMatchZeroConfidence ==
  /\ (op = "compare_faces"
        /\ (req.known_image.encs = <<>> \/ req.unknown_image.encs = <<>>)) =>
       (resp.is_match = FALSE /\ resp.confidence = 0)
  /\ ((ServiceDone \/ KycDone)
        /\ (req.selfie.encs = <<>> \/ req.id_front.encs = <<>>)) =>
       (resp.face_match.is_match = FALSE /\ resp.face_match.confidence = 0)

\* compare_faces was given one image with a face and one without
C6_Witness ==
  /\ op = "compare_faces"
  /\ req.known_image.readable
  /\ req.known_image.encs = <<>>
  /\ req.unknown_image.encs # <<>>
  /\ resp.is_match = FALSE
  /\ resp.confidence = 0

\* the distance between the first encodings of the two images compare_faces was given
C7_Distance == Abs(req.known_image.encs[1] - req.unknown_image.encs[1])

C7_BothEncoded ==
  /\ op = "compare_faces"
  /\ req.known_image.readable /\ req.unknown_image.readable
  /\ req.known_image.encs # <<>> /\ req.unknown_image.encs # <<>>

\* C7: when both images yield an encoding, compare_faces returns is_match=true
\* exactly when the distance between the first encodings is at most 0.6: true at
\* 0.3 and at exactly 0.6, false at 0.8.
C7_MatchIffWithinTolerance ==
  C7_BothEncoded =>
    /\ resp.is_match <=> C7_Distance <= 60000
    /\ C7_Distance \in {30000, 60000} => resp.is_match
    /\ C7_Distance = 80000 => ~resp.is_match

\* two images, several faces in the first, whose first faces are exactly 0.6 apart
C7_Witness ==
  /\ C7_BothEncoded
  /\ Len(req.known_image.encs) > 1
  /\ C7_Distance = 60000
  /\ resp.is_match

\* C8: the confidence of every face comparison result lies in [0, 100].
C8_ConfidenceInRange ==
  /\ op = "compare_faces" => resp.confidence \in 0..100000
  /\ (ServiceDone \/ KycDone) => resp.face_match.confidence \in 0..100000

\* C9: in every phone validation result of the verification handlers the normalized
\* number is present only when is_valid is true.
C9_NormalizedOnlyWhenValid ==
  (EndpointDone \/ KycDone \/ ServiceDone) =>
    (resp.phone_validation.normalized_number # None => resp.phone_validation.is_valid)

\* the last n characters of s
C10_Last(s, n) == SubSeq(s, Len(s) - n + 1, Len(s))

\* C10: POST /validate-id returns every accepted phone number as +254 followed by
\* its 9 subscriber digits (0XXXXXXXXX and the bare XXXXXXXXX get +254, +254XXXXXXXXX
\* is unchanged), and standardising the returned number again returns it unchanged.
C10_ValidateIdNormalizes ==
  (op = "validate_id" /\ resp.http = 200) =>
    LET p   == req.phone_number
        out == resp.data.phone_number
    IN  /\ Len(p) \in {9, 10, 13}
        /\ out = S_Plus254 \o C10_Last(p, 9)
        /\ IsDigits(C10_Last(out, 9)) /\ out[5] \in {"1", "7"}
        /\ StartsWith(S_Plus254, p) => out = p
        /\ PhoneRegexFullmatch(out)
        /\ StandardizePhone(out) = out

\* an accepted number written with a leading 0
C10_Witness ==
  /\ op = "validate_id" /\ resp.http = 200
  /\ StartsWith(S_Zero, req.phone_number)
  /\ resp.data.phone_number # req.phone_number

\* C11: in each verification variant a request that gives the phone number as
\* "0712345678" is answered with the phone reported valid, normalized to
\* "+254712345678", and with the is_verified of the same request made with
\* "+254712345678".
C11_LocalPhoneSameVerdict ==
  /\ (EndpointDone /\ req.phone_number = S_PhoneLocal) =>
       /\ resp.phone_validation.is_valid
       /\ resp.phone_validation.normalized_number = Some(S_PhoneE164)
       /\ resp.is_verified =
            EndpointResponse(req.name, req.id_number, S_PhoneE164,
                             req.selfie, req.id_front).is_verified
  /\ (KycDone /\ req.phone_number = S_PhoneLocal) =>
       /\ resp.phone_validation.is_valid
       /\ resp.phone_validation.normalized_number = Some(S_PhoneE164)
       /\ resp.is_verified =
            KycResponse(req.name, req.id_number, S_PhoneE164,
                        req.selfie, req.id_front, req.id_back).is_verified
  /\ (ServiceDone /\ req.phone_number = S_PhoneLocal) =>
       /\ resp.phone_validation.is_valid
       /\ resp.phone_validation.normalized_number = Some(S_PhoneE164)
       /\ resp.is_verified =
            ServiceResponse(req.name, req.id_number, S_PhoneE164,
                            req.selfie, req.id_front, req.id_back).is_verified

\* C12: each ID-number format validator answers true exactly when the id_number is
\* made of digits only and its length is in the validator's range, 7 or 8 for the
\* endpoint and 8 or 9 for OCRService.validate_kenyan_id_number.
C12_IdFormatIffDigitsInRange ==
  op = "id_format" =>
    LET digits == \A i \in 1..Len(req.id_number) : req.id_number[i] \in DigitChars
    IN  /\ resp.is_valid_id <=> (digits /\ Len(req.id_number) \in {7, 8})
        /\ resp.validate_kenyan_id_number <=> (digits /\ Len(req.id_number) \in {8, 9})

\* C13: parse_id_info of a text with none of the recognized field labels, the empty
\* text among them, returns a record in which every optional field is absent and
\* raw_text is the text.  A text has a label when one of its words, without its
\* colons, is a word of the patterns of parse_id_info.
C13_NoLabel(ocr_text) ==
  LET bare(word) == SelectSeq(word, LAMBDA c : c # ":")
      none(words) ==
        \A i \in 1..Len(words) : bare(words[i]) \notin {Word[k] : k \in DOMAIN Word}
  IN  none(Words(Lower(ocr_text)))

C13_NoLabelNoFields ==
  (op = "parse_id_info" /\ pc = "done" /\ req.ocr_text.kind = "str"
     /\ C13_NoLabel(req.ocr_text.text))
    => resp = [raw_text |-> Some(req.ocr_text.text)]

\* C14: parse_id_info never raises to its caller: when a step inside it raises, as
\* the first steps do for an argument that is not a str, it returns the fields set
\* before the exception, raw_text among them, and an 'error' note, and it returns no
\* such note otherwise; extract_kenyan_id_details returns its record with every
\* field absent when the text of the image cannot be read, as the details taken from
\* an unreadable ID front show.
C14_ExtractionNeverRaises ==
  /\ (op = "parse_id_info" /\ pc = "done") =>
       IF req.ocr_text.kind = "str" THEN "error" \notin DOMAIN resp
       ELSE /\ "error" \in DOMAIN resp
            /\ DOMAIN resp \subseteq {"error", "raw_text"}
            /\ "raw_text" \in DOMAIN resp <=> req.ocr_text.kind = "bytes"
            /\ "raw_text" \in DOMAIN resp => resp.raw_text = Some(req.ocr_text.text)
  /\ (op = "service" /\ pc = "done" /\ resp.status = "success"
        /\ ~req.id_front.readable) =>
       \A k \in DOMAIN resp.ocr_extracted_data : resp.ocr_extracted_data[k] = None

C14_Witness ==
  /\ op = "parse_id_info" /\ pc = "done"
  /\ req.ocr_text = [kind |-> "bytes", text |-> S_Scenario]
  /\ resp = [raw_text |-> Some(S_Scenario), error |-> Some("Error during parsing")]

\* C15: in parse_id_info a sex or jinsia label followed by a gender token gives the
\* gender the token means: m, male, man and mwanaume give Male; f, female, woman and
\* mwanamke give Female; and a gender that is present is Male or Female.
C15_GenderOfToken ==
  (op = "parse_id_info" /\ pc = "done" /\ req.ocr_text.kind = "str") =>
    /\ \A label \in {Word.sex, Word.jinsia}, sep \in {S_Sp, <<":", " ">>},
          token \in {Word.m, Word.male, Word.man, Word.mwanaume,
                     Word.f, Word.female, Word.woman, Word.mwanamke} :
         req.ocr_text.text = Upper(label \o sep \o token) =>
           /\ "gender" \in DOMAIN resp
           /\ resp.gender =
                Some(IF token \in {Word.m, Word.male, Word.man, Word.mwanaume}
                     THEN "Male" ELSE "Female")
    /\ "gender" \in DOMAIN resp => resp.gender \in {Some("Male"), Some("Female")}

\* C16: _process_id_card merges the details of the two sides field by field: the
\* front's value where the front has one, else the back's value, so that a merged
\* field is absent only when both sides lack it.
C16_MergeFieldByField ==
  (op = "service" /\ pc = "done" /\ resp.status = "success") =>
    \A k \in DOMAIN resp.ocr_extracted_data :
      resp.ocr_extracted_data[k] =
        IF CardDetails[req.id_front][k] # None THEN CardDetails[req.id_front][k]
        ELSE CardDetails[req.id_back][k]

\* C17: POST /api/validate/kenyan-id, POST /api/validate-kyc and POST /validate-id
\* answer a request with a missing required field or a malformed phone number, one
\* in none of the forms +254XXXXXXXXX, 0XXXXXXXXX and XXXXXXXXX of a Kenyan mobile
\* number, with HTTP 400 and no verdict; and they answer a verification that
\* completed and failed with HTTP 200 and is_verified false.
C17_InputErrorsAnswered400 ==
  (op \in {"endpoint", "kyc", "validate_id"} /\ pc = "done") =>
    /\ ( \/ op = "kyc" /\ (req.name = <<>> \/ ~req.selfie.present)
         \/ ~PhoneRegexFullmatch(req.phone_number) ) =>
         (resp.http = 400 /\ "is_verified" \notin DOMAIN resp)
    /\ ("is_verified" \in DOMAIN resp /\ ~resp.is_verified) => resp.http = 200

\* C18: when ValidationService.validate_kenyan_id has returned, on whichever path,
\* none of the temporary files the call created is still on disk.
C18_NoTempFileLeft ==
  (op = "service" /\ pc = "done") => resp.files_left = {}

\* C19: an exception raised while the faces of the images are loaded, detected or
\* encoded becomes a no-match result whose message carries the error, and never a
\* failed request: in _compare_faces, in the face step of validate_kyc and in
\* POST /validate-face, whose answer is then HTTP 200 with match false.
C19_FaceErrorIsNoMatch ==
  /\ (op = "service" /\ pc = "done" /\ resp.status = "success"
        /\ (~req.selfie.readable \/ ~req.id_front.readable)) =>
       (~resp.face_match.is_match /\ resp.face_match.message = "Error comparing faces")
  /\ (op = "kyc" /\ pc = "done" /\ req.selfie.stream /\ ~req.selfie.readable
        /\ req.id_front.readable /\ req.id_back.readable /\ req.name # <<>>) =>
       /\ resp.http = 200
       /\ ~resp.face_match.is_match
       /\ resp.face_match.message = "Error during face recognition"
  /\ (op = "validate_face" /\ pc = "done"
        /\ req.image1.present /\ req.image2.present
        /\ (~req.image1.readable \/ ~req.image2.readable)) =>
       (resp.http = 200 /\ ~resp.match)

\* C20: when no full name is extracted from the card, the name match is false: in
\* ValidationService, whose _verify_name_match gets the extracted full_name, and in
\* validate_kyc, whose name pattern finds nothing in the text of the two sides.
C20_NoNameNoMatch ==
  /\ (op = "service" /\ pc = "done" /\ resp.status = "success"
        /\ resp.ocr_extracted_data.full_name = None) => ~resp.name_match
  /\ (op = "kyc" /\ pc = "done" /\ resp.http = 200
        /\ KycNameSearch(Upper(Join(req.id_front.frags, S_Sp) \o S_Sp
                                 \o Join(req.id_back.frags, S_Sp))) = None) =>
       ~resp.name_match

\* C21: for a text without a label in which exactly one word is a run of 7, 8 or 9
\* digits, parse_id_info returns that run as id_number, and so does the extraction
\* step of validate_kyc for the text of the two sides of the card.
C21_OnlyDigitRun(text) ==
  LET runs(words) ==
        {i \in 1..Len(words) : IsDigits(words[i]) /\ Len(words[i]) \in 7..9}
      only(words) ==
        IF C13_NoLabel(text) /\ Cardinality(runs(words)) = 1
        THEN Some(words[CHOOSE i \in runs(words) : TRUE]) ELSE None
  IN  only(Words(text))

C21_DigitRunIsIdNumber ==
  /\ (op = "parse_id_info" /\ pc = "done" /\ req.ocr_text.kind = "str"
        /\ C21_OnlyDigitRun(req.ocr_text.text) # None) =>
       ("id_number" \in DOMAIN resp
          /\ resp.id_number = C21_OnlyDigitRun(req.ocr_text.text))
  /\ (op = "kyc" /\ pc = "done" /\ resp.http = 200
        /\ C21_OnlyDigitRun(Join(req.id_front.frags, S_Sp) \o S_Sp
                              \o Join(req.id_back.frags, S_Sp)) # None) =>
       resp.ocr_extracted_data.id_number =
         C21_OnlyDigitRun(Join(req.id_front.frags, S_Sp) \o S_Sp
                            \o Join(req.id_back.frags, S_Sp))

\* C22: the full_name of extract_kenyan_id_details is the first line of the text
\* that has at least two words, every one of them beginning with an uppercase
\* letter, and is absent when the text has no such line; the details of the ID
\* front are those the service returns.
C22_FirstNameLine(text) ==
  LET named(lines) ==
        {i \in 1..Len(lines) :
           /\ Len(Words(lines[i])) >= 2
           /\ \A w \in 1..Len(Words(lines[i])) : Words(lines[i])[w][1] \in UpperChars}
      first(lines) ==
        IF named(lines) = {} THEN None ELSE Some(lines[Min(named(lines))])
  IN  first(TextLines(text))

C22_FullNameIsFirstNameLine ==
  (op = "service" /\ pc = "done" /\ resp.status = "success" /\ req.id_front.readable) =>
    resp.ocr_extracted_data.full_name =
      C22_FirstNameLine(Join(req.id_front.frags, S_Nl))

\* C23: parse_id_info returns a document_type for every text, whatever the case of
\* its letters: huduma_card when the text contains 'huduma', else national_id when
\* it contains both 'national' and 'identity', else the value unknown.
C23_DocumentTypeClassified ==
  (op = "parse_id_info" /\ pc = "done" /\ req.ocr_text.kind = "str") =>
    /\ "document_type" \in DOMAIN resp
    /\ resp.document_type =
         IF Contains(Word.huduma, Lower(req.ocr_text.text)) THEN Some("huduma_card")
         ELSE IF /\ Contains(Word.national, Lower(req.ocr_text.text))
                 /\ Contains(Word.identity, Lower(req.ocr_text.text))
              THEN Some("national_id")
         ELSE Some("unknown")

\* C24: in validate_kenyan_id of the endpoint and in validate_kyc the ID-number check
\* is true, and the request verified, only when the submitted id_number is a whole
\* number of the card, a run of digits with no digit before or after it; a proper
\* part of a longer run never passes.
C24_WholeNumbers(text) ==
  {SubSeq(text, i, j) : <<i, j>> \in
     {r \in (1..Len(text)) \X (1..Len(text)) :
        /\ r[1] <= r[2]
        /\ \A k \in r[1]..r[2] : text[k] \in DigitChars
        /\ (r[1] = 1 \/ text[r[1] - 1] \notin DigitChars)
        /\ (r[2] = Len(text) \/ text[r[2] + 1] \notin DigitChars)}}

C24_IdCheckNeedsWholeNumber ==
  /\ (op = "endpoint" /\ pc = "done" /\ resp.http = 200
        /\ (resp.ocr_extraction.id_number_found \/ resp.is_verified)) =>
       req.id_number \in C24_WholeNumbers(Join(req.id_front.frags, S_Sp))
  /\ (op = "kyc" /\ pc = "done" /\ resp.http = 200
        /\ (resp.id_validation.id_pattern_matched \/ resp.is_verified)) =>
       req.id_number \in C24_WholeNumbers(Join(req.id_front.frags, S_Sp) \o S_Sp
                                            \o Join(req.id_back.frags, S_Sp))

====
